---- MODULE Spec2Model ----
(***************************************************************************)
(* A model of gitlab-tools: the click command handlers of cli.py (group    *)
(* selection, repository filtering, list, delete, clone), the scraping     *)
(* session client of uiclient.py and the credential lookup of config.py.   *)
(***************************************************************************)
EXTENDS Integers, Sequences, FiniteSets, TLC

None == "None"

(***************************************************************************)
(* Bounds and the finite universes the inputs are drawn from.              *)
(***************************************************************************)
MaxRounds == 4
MaxFetches == 3
MaxCalls == 2
MaxPrompts == 3

Groups == {"A", "B", "C", "D"}
GroupOrder == <<"A", "B", "C", "D">>
Root == "A"

\* project names, as character sequences (the regex filter reads them)
ProjectNames == {<<"a">>, <<"a", "b">>}
\* compiled patterns: a sequence of atoms, each a literal or the wildcard "."
Regexes == {<<"a">>, <<".", "b">>, <<"b">>, <<>>}
Formats == {"list", "json", "yaml"}

VARIABLES
    subgroups,        \* server: group -> set of its direct subgroups
    projects,         \* server: group -> paged project listing (a sequence)
    argv,             \* the command line of this invocation
    pc,               \* position of the running command
    groups_selected,  \* _recursive_group_select / repos / clone local
    groups,           \* _recursive_group_select: the current frontier
    rounds,           \* iterations of the while True loop so far
    repos,            \* RepoContext.repos
    stdout,           \* lines printed
    log,              \* structlog records emitted by the handlers
    deleted,          \* project ids prj.delete() was called on, in order
    fs,               \* the local disk: existing path -> what is there
    fs0,              \* the disk as the command found it
    remote,           \* server: state of each remote repository
    clone_calls,      \* gitutil.clone_from calls, in order
    base_url,         \* GitlabUIClient.base_url
    otp_secret,       \* the seed GitlabUIClient was constructed with
    csrf_data,        \* GitlabUIClient._csrf_data
    ui_pc,            \* position of the session client
    login_ret,        \* the loop _do_login was called from
    r,                \* the response the logged-in check reads
    login_r,          \* _do_login: the response to the credential submission
    login_state,      \* how the current login traversal stands
    cred_status,      \* status of the response to the credential submission
    otp_status,       \* status of the response to the one-time-code submission
    submissions,      \* form submissions of the current login traversal
    traversals,       \* login traversals of the current caller fetch
    fetches,          \* requests for the target URL of the current caller fetch
    calls,            \* list_repository_mirrors calls made so far
    outcome,          \* how the current list_repository_mirrors call ended
    last_request,     \* the request sent last
    last_response,    \* the meta tags of the response received last
    prior_response,   \* the meta tags of the response received just before
                      \* last_request was sent
    seen_csrf,        \* the pair of the latest response that carried one
    keyring,          \* OS credential storage: <<service, username>> -> value
    cfg,              \* the arguments Config is constructed with
    cfg_pc,           \* position of Config.__init__
    cfg_user,         \* _get_user: user, then Config.user
    cfg_token,        \* _get_token: gitlab_token
    prompts,          \* interactive prompts shown, in order
    writes,           \* keyring.set_password calls, in order
    secret            \* what the last credential read gave its caller

cliVars == <<subgroups, projects, argv, pc, groups_selected, groups, rounds,
             repos, stdout, log, deleted>>
cloneVars == <<fs, fs0, remote, clone_calls>>

uiVars == <<base_url, otp_secret, csrf_data, ui_pc, login_ret, r, login_r,
            login_state, cred_status, otp_status, submissions, traversals,
            fetches, calls, outcome, last_request, last_response, prior_response,
            seen_csrf>>

cfgVars == <<keyring, cfg, cfg_pc, cfg_user, cfg_token, prompts, writes, secret>>

vars == <<cliVars, cloneVars, uiVars, cfgVars>>

(***************************************************************************)
(* Helpers                                                                 *)
(***************************************************************************)
Range(s) == {s[i] : i \in DOMAIN s}

IsInjective(s) == \A i, j \in DOMAIN s : s[i] = s[j] => i = j

SeqsUpTo(S, n) == UNION {[1..k -> S] : k \in 0..n}

\* every paged listing of a group: project names are unique within a group
Listings == {s \in SeqsUpTo(ProjectNames, Cardinality(ProjectNames)) : IsInjective(s)}

RECURSIVE Concat(_)
Concat(ss) == IF ss = <<>> THEN <<>> ELSE Head(ss) \o Concat(Tail(ss))

\* g.subgroups.list(get_all=True): the direct subgroups, in listing order
SubgroupList(g) == SelectSeq(GroupOrder, LAMBDA x : x \in subgroups[g])

\* g.projects.list(all=True): the project objects of group g
Project(g, n) == [group |-> g, name |-> n]
ProjectList(g) == [i \in DOMAIN projects[g] |-> Project(g, projects[g][i])]

\* repo_regex.match(name) is not None: re.match anchors at the start only
RegexMatch(re, name) ==
    /\ Len(re) <= Len(name)
    /\ \A i \in 1..Len(re) : re[i] = "." \/ re[i] = name[i]

(***************************************************************************)
(* _recursive_group_select: one pass of the while True loop per step.      *)
(***************************************************************************)
\* new_groups: for g in groups: for subgroup in g.subgroups.list(): append
NewGroups(gs) == Concat([i \in DOMAIN gs |-> SubgroupList(gs[i])])

RecursiveGroupSelectStep ==
    /\ pc = "select"
    /\ rounds < MaxRounds
    /\ LET new_groups == NewGroups(groups) IN
       IF Len(new_groups) = 0
       THEN /\ pc' = argv.ret
            /\ UNCHANGED <<groups_selected, groups, rounds>>
       ELSE /\ groups_selected' = groups_selected \o new_groups
            /\ groups' = new_groups
            /\ rounds' = rounds + 1
            /\ pc' = "select"
    /\ UNCHANGED <<subgroups, projects, argv, repos, stdout, log, deleted>>
    /\ UNCHANGED <<cloneVars, uiVars, cfgVars>>

(***************************************************************************)
(* repos: select the groups, filter their projects by the regex.           *)
(***************************************************************************)
ReposEnter ==
    /\ pc = "repos"
    /\ groups_selected' = <<Root>>
    /\ groups' = <<Root>>
    /\ rounds' = 0
    /\ pc' = IF argv.recursive THEN "select" ELSE "filter"
    /\ log' = IF argv.recursive THEN Append(log, [event |-> "Discovering subgroups"])
                                ELSE log
    /\ UNCHANGED <<subgroups, projects, argv, repos, stdout, deleted>>
    /\ UNCHANGED <<cloneVars, uiVars, cfgVars>>

\* the list comprehension of lines 222-226
MatchedOfUnfiltered(ps, re) == ps
RECURSIVE MatchedOf(_, _)
MatchedOf(ps, re) ==
    IF ps = <<>> THEN <<>>
    ELSE IF RegexMatch(re, Head(ps).name)
         THEN <<Head(ps)>> \o MatchedOf(Tail(ps), re)
         ELSE MatchedOf(Tail(ps), re)

\* the for loop of lines 221-234: `projects` is assigned in every iteration
RECURSIVE ReposLoop(_, _, _)
ReposLoop(gs, acc, re) ==
    IF gs = <<>> THEN acc
    ELSE ReposLoop(Tail(gs), MatchedOf(ProjectList(Head(gs)), re), re)

RECURSIVE ReposLog(_, _)
ReposLog(gs, re) ==
    IF gs = <<>> THEN <<>>
    ELSE LET m == MatchedOf(ProjectList(Head(gs)), re) IN
         [i \in DOMAIN m |-> [event |-> "Found repository", repo_name |-> m[i].name]]
         \o (IF Len(m) > 0
             THEN <<[event |-> "Matched repositories.", num_repos |-> Len(m)]>>
             ELSE <<[event |-> "No repos matched for regex", regex |-> re]>>)
         \o ReposLog(Tail(gs), re)

PathWithNamespace(p) == <<p.group, p.name>>

ReposSelect ==
    /\ pc = "filter"
    /\ LET selected == ReposLoop(groups_selected, <<>>, argv.repo_regex) IN
       /\ repos' = selected
       /\ stdout' = IF argv.sub = "none"
                    THEN stdout \o [i \in DOMAIN selected |-> PathWithNamespace(selected[i])]
                    ELSE stdout
    /\ log' = log \o ReposLog(groups_selected, argv.repo_regex)
    /\ pc' = IF argv.sub = "none" THEN "done" ELSE argv.sub
    /\ UNCHANGED <<subgroups, projects, argv, groups_selected, groups, rounds, deleted>>
    /\ UNCHANGED <<cloneVars, uiVars, cfgVars>>

(***************************************************************************)
(* repos ... list                                                          *)
(***************************************************************************)
ListRepos ==
    /\ pc = "list"
    /\ stdout' = stdout \o
         (IF argv.format = "list"
          THEN [i \in DOMAIN repos |-> repos[i].name]
          ELSE <<[format |-> argv.format, attributes |-> repos]>>)
    /\ pc' = "done"
    /\ UNCHANGED <<subgroups, projects, argv, groups_selected, groups, rounds,
                   repos, log, deleted>>
    /\ UNCHANGED <<cloneVars, uiVars, cfgVars>>

(***************************************************************************)
(* repos ... delete                                                        *)
(***************************************************************************)
DeleteGuardEither(doit, seriously) == doit \/ seriously
DeleteGuard(doit, seriously) == doit /\ seriously

RECURSIVE DeleteCalls(_, _, _)
DeleteCalls(rs, doit, seriously) ==
    IF rs = <<>> THEN <<>>
    ELSE (IF DeleteGuard(doit, seriously) THEN <<Head(rs)>> ELSE <<>>)
         \o DeleteCalls(Tail(rs), doit, seriously)

RECURSIVE DeleteLog(_, _, _)
DeleteLog(rs, doit, seriously) ==
    IF rs = <<>> THEN <<>>
    ELSE (IF DeleteGuard(doit, seriously)
          THEN << [event |-> "Looking up actual project", project_name |-> Head(rs).name],
                  [event |-> "Deleting project", project_name |-> Head(rs).name],
                  [event |-> "Deleted project", project_name |-> Head(rs).name] >>
          ELSE << [event |-> "DRY RUN - NO ACTION", project_name |-> Head(rs).name] >>)
         \o DeleteLog(Tail(rs), doit, seriously)

DeleteRepos ==
    /\ pc = "delete"
    /\ deleted' = deleted \o DeleteCalls(repos, argv.doit, argv.seriously)
    /\ log' = log \o DeleteLog(repos, argv.doit, argv.seriously)
    /\ stdout' = IF argv.quiet THEN stdout
                 ELSE stdout \o [i \in DOMAIN repos |-> repos[i].name]
    /\ pc' = "done"
    /\ UNCHANGED <<subgroups, projects, argv, groups_selected, groups, rounds, repos>>
    /\ UNCHANGED <<cloneVars, uiVars, cfgVars>>


(***************************************************************************)
(* clone-organization and organization ... clone                           *)
(***************************************************************************)
OutputDir == <<"out">>

\* p.attributes["path"]: the slug of a project
ProjectPath(n) == IF n = <<"a">> THEN "a" ELSE "ab"
ProjectPaths == {ProjectPath(n) : n \in ProjectNames}
\* p.attributes["http_url_to_repo"]
CloneLink(p) == <<p.group, ProjectPath(p.name)>>

\* g.attributes["full_path"]: the chain of groups from the top-level group down
RECURSIVE FullPath(_)
FullPath(g) ==
    LET parents == {h \in Groups : g \in subgroups[h]} IN
    IF g = Root \/ parents = {} THEN <<g>>
    ELSE FullPath(CHOOSE h \in parents : TRUE) \o <<g>>

\* os.path.relpath(path, start), for a path at or below start
RelPath(path, start) ==
    IF path = start THEN <<".">>
    ELSE SubSeq(path, Len(start) + 1, Len(path))

\* os.path.join
PathJoin(a, b) == a \o b

\* the file a path names: "." components name the directory itself
Resolve(path) == SelectSeq(path, LAMBDA c : c # ".")

\* os.path.exists
PathExists(disk, path) == Resolve(path) \in DOMAIN disk

\* os.makedirs(path, exist_ok=True)
RECURSIVE MakeDirs(_, _)
MakeDirs(disk, path) ==
    LET p == Resolve(path) IN
    IF p = <<>> \/ p \in DOMAIN disk THEN disk
    ELSE MakeDirs(disk, SubSeq(p, 1, Len(p) - 1)) @@ (p :> [kind |-> "dir"])

\* the attributes a Config object has: those of the class and those that
\* Config.__init__ sets
ConfigAttributes ==
    {"DEFAULT_USER", "DEFAULT_SERVER", "ssl_verify", "gitlab_server", "logger",
     "allow_prompting", "user", "token", "_gitlab_client", "otp_secret",
     "user_password", "client"}

\* reading config.<name>: AttributeError when the object has no such attribute
HasAttribute(name) == name \in ConfigAttributes

\* gitutil.clone_from(config, url, to_path): builds the TLS options from
\* config.ssl_verify and config.ssl_capath, then git.Repo.clone_from populates
\* to_path with a clone
CloneFrom(st, url, to_path) ==
    LET called == Append(st.calls, [url |-> url, to_path |-> to_path]) IN
    IF ~HasAttribute("ssl_verify") \/ ~HasAttribute("ssl_capath")
    THEN [st EXCEPT !.calls = called, !.raised = "AttributeError"]
    ELSE [st EXCEPT !.calls = called,
                    !.disk = (Resolve(to_path) :> [kind |-> "clone", of |-> url,
                                                   content |-> remote[url[2]]]) @@ st.disk]

\* the loop over pids (lines 73-79 and 178-186); an exception ends it
RECURSIVE CloneProjects(_, _, _)
CloneProjects(ps, dir, st) ==
    IF ps = <<>> \/ st.raised # None THEN st
    ELSE LET clone_path == PathJoin(dir, <<ProjectPath(Head(ps).name)>>) IN
         CloneProjects(Tail(ps), dir,
                       IF ~PathExists(st.disk, clone_path)
                       THEN CloneFrom(st, CloneLink(Head(ps)), clone_path)
                       ELSE st)

\* the loop over groups_selected (lines 164-186); an exception ends it
RECURSIVE CloneGroups(_, _)
CloneGroups(gs, st) ==
    IF gs = <<>> \/ st.raised # None THEN st
    ELSE LET group_relpath == RelPath(FullPath(Head(gs)), FullPath(Root))
             group_output_dir == PathJoin(OutputDir, group_relpath)
             made == [st EXCEPT !.disk = MakeDirs(st.disk, group_output_dir)]
         IN  CloneGroups(Tail(gs), CloneProjects(ProjectList(Head(gs)), group_output_dir, made))

\* clone-organization TARGET_ORG: clones into the working directory
GitlabOrgClone ==
    /\ pc = "clone-organization"
    /\ LET st == CloneProjects(ProjectList(Root), <<>>,
                               [disk |-> fs, calls |-> clone_calls, raised |-> None]) IN
       /\ fs' = st.disk
       /\ clone_calls' = st.calls
       /\ pc' = IF st.raised = None THEN "done" ELSE st.raised
    /\ groups_selected' = <<Root>>
    /\ UNCHANGED <<subgroups, projects, argv, groups, rounds, repos, stdout, log, deleted>>
    /\ UNCHANGED <<fs0, remote>>
    /\ UNCHANGED <<uiVars, cfgVars>>

\* organization ORG clone [-r] OUTPUT_DIR: lines 150-161
CloneEnter ==
    /\ pc = "clone"
    /\ fs' = MakeDirs(fs, OutputDir)
    /\ groups_selected' = <<Root>>
    /\ groups' = <<Root>>
    /\ rounds' = 0
    /\ pc' = IF argv.recursive THEN "select" ELSE "clone-loop"
    /\ UNCHANGED <<subgroups, projects, argv, repos, stdout, log, deleted>>
    /\ UNCHANGED <<fs0, remote, clone_calls>>
    /\ UNCHANGED <<uiVars, cfgVars>>

\* organization ORG clone: lines 163-188
Clone ==
    /\ pc = "clone-loop"
    /\ LET st == CloneGroups(groups_selected,
                             [disk |-> fs, calls |-> clone_calls, raised |-> None]) IN
       /\ fs' = st.disk
       /\ clone_calls' = st.calls
       /\ pc' = IF st.raised = None THEN "done" ELSE st.raised
    /\ UNCHANGED <<subgroups, projects, argv, groups_selected, groups, rounds,
                   repos, stdout, log, deleted>>
    /\ UNCHANGED <<fs0, remote>>
    /\ UNCHANGED <<uiVars, cfgVars>>

(***************************************************************************)
(* uiclient.py: the scraping session client                                *)
(***************************************************************************)
ServerUrls == {"https://gitlab.com", "https://git.example.org"}
\* urlparse(url).netloc
Netloc(url) == IF url = "https://gitlab.com" THEN "gitlab.com" ELSE "git.example.org"

\* seeds the client is constructed with; "" is what an unconfigured seed reads as
NoSeed == ""
Seeds == {NoSeed, "JBSWY3DPEHPK3PXP"}

\* the csrf-param / csrf-token meta tags a page carries (None: tag absent)
MetaTags == [param : {None, "authenticity_token"}, token : {None, "t1", "t2"}]
NoCsrf == [param |-> None, token |-> None]

\* gitlab_get_csrf: the pair when both tags are present, else the empty dict
gitlab_get_csrf(meta) ==
    IF meta.param # None /\ meta.token # None THEN meta ELSE NoCsrf

\* a page: whether it holds div.login-body, and its meta tags
Pages == [login_body : BOOLEAN, meta : MetaTags]
NoPage == [login_body |-> FALSE, meta |-> NoCsrf]
\* r.status_code, and the value standing for "no response yet"
StatusCodes == {"200", "302"}
NoStatus == "none"
NoRequest == [method |-> None, host |-> None, path |-> None, data |-> NoCsrf]

\* pyotp.TOTP(otp_secret): an object whatever the seed is, never None
NoObject == <<>>
TOTP(seed) == <<"TOTP", seed>>

\* the pair of the latest response that carried one, after a response with
\* the tags meta
Observe(seen, meta) ==
    IF gitlab_get_csrf(meta) # NoCsrf THEN gitlab_get_csrf(meta) ELSE seen

\* a count of requests or traversals of one call, kept up to MaxFetches
CountUp(n) == IF n < MaxFetches THEN n + 1 ELSE n

\* _check_logged_in
CheckLoggedIn(page) == ~page.login_body

\* r.status_code == 302
RedirectedNever(status) == FALSE
RedirectedAlways(status) == TRUE
Redirected(status) == status = "302"

\* list_repository_mirrors, line 130-132: build the URL, call _get
ListRepositoryMirrors ==
    /\ ui_pc = "idle"
    /\ calls < MaxCalls
    /\ calls' = calls + 1
    /\ ui_pc' = "request"
    /\ login_ret' = "_get"
    /\ traversals' = 0
    /\ fetches' = 0
    /\ outcome' = "running"
    /\ login_state' = "Anonymous"
    /\ login_r' = NoPage
    /\ cred_status' = NoStatus
    /\ otp_status' = NoStatus
    /\ submissions' = 0
    /\ UNCHANGED <<base_url, otp_secret, csrf_data, r, last_request, last_response,
                   prior_response, seen_csrf>>
    /\ UNCHANGED <<cliVars, cloneVars, cfgVars>>

\* the fetch of the target URL: _request("GET", url) in _get (lines 122, 125,
\* 111-118), session.get(url) in list_repository_mirrors (line 135)
Fetch ==
    /\ ui_pc = "request"
    /\ \E page \in Pages :
         /\ r' = page
         /\ csrf_data' = IF login_ret = "_get" THEN gitlab_get_csrf(page.meta)
                                               ELSE csrf_data
         /\ last_response' = page.meta
         /\ seen_csrf' = Observe(seen_csrf, page.meta)
    /\ prior_response' = last_response
    /\ fetches' = CountUp(fetches)
    /\ last_request' = [method |-> "GET", host |-> Netloc(base_url),
                        path |-> "settings/repository", data |-> NoCsrf]
    /\ ui_pc' = IF login_ret = "_get" THEN "_get_check" ELSE "mirrors_check"
    /\ UNCHANGED <<base_url, otp_secret, login_ret, login_r, login_state, cred_status,
                   otp_status, submissions, traversals, calls, outcome>>
    /\ UNCHANGED <<cliVars, cloneVars, cfgVars>>

\* _get, line 123: while not self._check_logged_in(r)
GetCheck ==
    /\ ui_pc = "_get_check"
    /\ ui_pc' = IF ~CheckLoggedIn(r) THEN "_do_login" ELSE "mirrors_check"
    /\ UNCHANGED <<base_url, otp_secret, csrf_data, login_ret, r, login_r, login_state,
                   cred_status, otp_status, submissions, traversals, fetches,
                   calls, outcome, last_request, last_response, prior_response,
                   seen_csrf>>
    /\ UNCHANGED <<cliVars, cloneVars, cfgVars>>

\* list_repository_mirrors, lines 133-140: the second logged-in loop, then
\* the mirror section is looked up and logged
MirrorsCheck ==
    /\ ui_pc = "mirrors_check"
    /\ IF ~CheckLoggedIn(r)
       THEN /\ ui_pc' = "_do_login"
            /\ login_ret' = "list_repository_mirrors"
            /\ UNCHANGED outcome
       ELSE /\ ui_pc' = "idle"
            /\ outcome' = "returned"
            /\ UNCHANGED login_ret
    /\ UNCHANGED <<base_url, otp_secret, csrf_data, r, login_r, login_state, cred_status,
                   otp_status, submissions, traversals, fetches, calls, last_request,
                   last_response, prior_response, seen_csrf>>
    /\ UNCHANGED <<cliVars, cloneVars, cfgVars>>

\* _do_login, lines 65-67: fetch the sign-in page and read its CSRF pair
LoginPage ==
    /\ ui_pc = "_do_login"
    /\ \E meta \in MetaTags :
         /\ csrf_data' = gitlab_get_csrf(meta)
         /\ last_response' = meta
         /\ seen_csrf' = Observe(seen_csrf, meta)
    /\ prior_response' = last_response
    /\ last_request' = [method |-> "GET", host |-> "gitlab.com",
                        path |-> "users/sign_in", data |-> NoCsrf]
    /\ traversals' = CountUp(traversals)
    /\ submissions' = 0
    /\ cred_status' = NoStatus
    /\ otp_status' = NoStatus
    /\ login_r' = NoPage
    /\ login_state' = "Anonymous"
    /\ ui_pc' = "login_post"
    /\ UNCHANGED <<base_url, otp_secret, login_ret, r, fetches, calls, outcome>>
    /\ UNCHANGED <<cliVars, cloneVars, cfgVars>>

\* _do_login, lines 68-85: submit username and password
LoginPost ==
    /\ ui_pc = "login_post"
    /\ last_request' = [method |-> "POST", host |-> "gitlab.com",
                        path |-> "users/sign_in", data |-> csrf_data]
    /\ submissions' = submissions + 1
    /\ prior_response' = last_response
    /\ \E status \in StatusCodes, meta \in MetaTags :
         /\ cred_status' = status
         /\ login_r' = [login_body |-> FALSE, meta |-> meta]
         /\ last_response' = meta
         /\ seen_csrf' = Observe(seen_csrf, meta)
         /\ IF Redirected(status)
            THEN /\ login_state' = "Authenticated"
                 /\ ui_pc' = "request"
                 /\ UNCHANGED outcome
            ELSE IF TOTP(otp_secret) = NoObject
            THEN /\ login_state' = "Failed"
                 /\ ui_pc' = "idle"
                 /\ outcome' = "ErrorGitlabLoginFailed"
            ELSE /\ login_state' = "OtpRequired"
                 /\ ui_pc' = "otp_post"
                 /\ UNCHANGED outcome
    /\ UNCHANGED <<base_url, otp_secret, csrf_data, login_ret, r, otp_status,
                   traversals, fetches, calls>>
    /\ UNCHANGED <<cliVars, cloneVars, cfgVars>>

\* _do_login, lines 87-88: the stored pair is replaced by the pair of the
\* response to the credential submission
OtpCsrfDataStale(stored, response) == stored
OtpCsrfData(stored, response) == gitlab_get_csrf(response.meta)

\* _do_login, lines 87-98: read the CSRF pair of the response, submit the code
OtpPost ==
    /\ ui_pc = "otp_post"
    /\ csrf_data' = OtpCsrfData(csrf_data, login_r)
    /\ last_request' = [method |-> "POST", host |-> "gitlab.com",
                        path |-> "users/sign_in", data |-> csrf_data']
    /\ submissions' = submissions + 1
    /\ prior_response' = last_response
    /\ \E status \in StatusCodes, meta \in MetaTags :
         /\ otp_status' = status
         /\ last_response' = meta
         /\ seen_csrf' = Observe(seen_csrf, meta)
         /\ IF Redirected(status)
            THEN /\ login_state' = "Authenticated"
                 /\ ui_pc' = "request"
                 /\ UNCHANGED outcome
            ELSE /\ login_state' = "Failed"
                 /\ ui_pc' = "idle"
                 /\ outcome' = "ErrorGitlabLoginFailed"
    /\ UNCHANGED <<base_url, otp_secret, login_ret, r, login_r, cred_status,
                   traversals, fetches, calls>>
    /\ UNCHANGED <<cliVars, cloneVars, cfgVars>>

(***************************************************************************)
(* config.py: Config.__init__, _get_user, _get_token                       *)
(***************************************************************************)
DEFAULT_USER == "__default"
UserNames == {DEFAULT_USER, "alice"}
\* what may be typed at a prompt
TypedUsers == {"", "alice"}
TypedTokens == {"", "glpat-1"}

TypedSeeds == {"", "seed-1"}
TypedPasswords == {"", "pw-1"}

\* get_service_name: "{netloc}:api"
ServiceName(server) == <<Netloc(server), "api">>
ServiceNames == {ServiceName(u) : u \in ServerUrls}
KeyringKeys == ServiceNames \X UserNames

\* OTP_SERVICE_TEMPLATE.format(url=netloc): "{netloc}:otp"
OtpServiceName(server) == <<Netloc(server), "otp">>
\* "{netloc}:user_password"
PasswordServiceName(server) == <<Netloc(server), "user_password">>
\* the keys of the login credentials in the credential storage
CredentialKeys ==
    ({OtpServiceName(u) : u \in ServerUrls} \cup {PasswordServiceName(u) : u \in ServerUrls})
        \X UserNames

\* Secret(value): value.encode("utf8") raises AttributeError on None;
\* unmasked() gives the value back
NoSecret == [kind |-> None, value |-> None, raised |-> None]
Secret(kind, value) ==
    [kind |-> kind, value |-> value,
     raised |-> IF value = None THEN "AttributeError" ELSE None]

\* keyring.get_password(service, username)
GetPassword(store, service, username) == store[<<service, username>>]
\* keyring.set_password(service, username, value)
SetPassword(store, service, username, value) ==
    [store EXCEPT ![<<service, username>>] = value]

\* `x is None or x == ""`
Missing(x) == x = None \/ x = ""

\* __init__ lines 204-207 and _get_user lines 125-126
ConfigInit ==
    /\ cfg_pc = "__init__"
    /\ IF cfg.user = None
       THEN /\ cfg_user' = GetPassword(keyring, ServiceName(cfg.gitlab_server), DEFAULT_USER)
            /\ cfg_pc' = "_get_user"
       ELSE /\ cfg_user' = cfg.user
            /\ cfg_pc' = "_get_token"
    /\ UNCHANGED <<keyring, cfg, cfg_token, prompts, writes, secret>>
    /\ UNCHANGED <<cliVars, cloneVars, uiVars>>

\* _get_user, lines 127-144: one pass of the while loop, or its exit
GetUser ==
    /\ cfg_pc = "_get_user"
    /\ IF Missing(cfg_user)
       THEN IF ~cfg.allow_prompting
            THEN /\ cfg_pc' = "raised"
                 /\ UNCHANGED <<keyring, cfg_user, prompts, writes>>
            ELSE /\ Len(prompts) < MaxPrompts
                 /\ \E new_default_user \in TypedUsers :
                      LET service == ServiceName(cfg.gitlab_server) IN
                      /\ keyring' = SetPassword(keyring, service, DEFAULT_USER, new_default_user)
                      /\ cfg_user' = GetPassword(keyring', service, DEFAULT_USER)
                      /\ writes' = Append(writes, [service |-> service,
                                                   username |-> DEFAULT_USER,
                                                   value |-> new_default_user])
                 /\ prompts' = Append(prompts, "user")
                 /\ cfg_pc' = "_get_user"
       ELSE /\ cfg_pc' = "_get_token"
            /\ UNCHANGED <<keyring, cfg_user, prompts, writes>>
    /\ UNCHANGED <<cfg, cfg_token, secret>>
    /\ UNCHANGED <<cliVars, cloneVars, uiVars>>

\* _get_token, line 148
GetTokenEnter ==
    /\ cfg_pc = "_get_token"
    /\ cfg_token' = GetPassword(keyring, ServiceName(cfg.gitlab_server), cfg_user)
    /\ cfg_pc' = "_get_token_loop"
    /\ UNCHANGED <<keyring, cfg, cfg_user, prompts, writes, secret>>
    /\ UNCHANGED <<cliVars, cloneVars, uiVars>>

\* _get_token, lines 149-155: one pass of the while loop, or its exit
GetToken ==
    /\ cfg_pc = "_get_token_loop"
    /\ IF Missing(cfg_token)
       THEN /\ Len(prompts) < MaxPrompts
            /\ \E new_password \in TypedTokens :
                 LET service == ServiceName(cfg.gitlab_server) IN
                 /\ keyring' = SetPassword(keyring, service, cfg_user, new_password)
                 /\ cfg_token' = GetPassword(keyring', service, cfg_user)
                 /\ writes' = Append(writes, [service |-> service,
                                              username |-> cfg_user,
                                              value |-> new_password])
            /\ prompts' = Append(prompts, "token")
            /\ cfg_pc' = "_get_token_loop"
            /\ UNCHANGED secret
       ELSE /\ secret' = Secret("token", cfg_token)
            /\ cfg_pc' = "constructed"
            /\ UNCHANGED <<keyring, cfg_token, prompts, writes>>
    /\ UNCHANGED <<cfg, cfg_user>>
    /\ UNCHANGED <<cliVars, cloneVars, uiVars>>

\* the otp_secret property, lines 157-170
OtpSecret ==
    /\ cfg_pc = "constructed"
    /\ LET service_name == OtpServiceName(cfg.gitlab_server)
           otp == GetPassword(keyring, service_name, cfg_user)
       IN  IF Missing(otp)
           THEN /\ Len(prompts) < MaxPrompts
                /\ \E new_otp_secret \in TypedSeeds :
                     /\ keyring' = SetPassword(keyring, service_name, cfg_user, new_otp_secret)
                     /\ writes' = Append(writes, [service |-> service_name,
                                                  username |-> cfg_user,
                                                  value |-> new_otp_secret])
                     /\ secret' = Secret("otp_secret",
                                         GetPassword(keyring', service_name, cfg_user))
                /\ prompts' = Append(prompts, "otp_secret")
           ELSE /\ secret' = Secret("otp_secret", otp)
                /\ UNCHANGED <<keyring, prompts, writes>>
    /\ UNCHANGED <<cfg, cfg_pc, cfg_user, cfg_token>>
    /\ UNCHANGED <<cliVars, cloneVars, uiVars>>

\* the user_password property, lines 172-183: what is read back after the
\* write is bound to another name, and Secret wraps the first read
UserPassword ==
    /\ cfg_pc = "constructed"
    /\ LET service_name == PasswordServiceName(cfg.gitlab_server)
           user_password == GetPassword(keyring, service_name, cfg_user)
       IN  /\ IF Missing(user_password)
              THEN /\ Len(prompts) < MaxPrompts
                   /\ \E new_otp_secret \in TypedPasswords :
                        /\ keyring' = SetPassword(keyring, service_name, cfg_user,
                                                  new_otp_secret)
                        /\ writes' = Append(writes, [service |-> service_name,
                                                     username |-> cfg_user,
                                                     value |-> new_otp_secret])
                   /\ prompts' = Append(prompts, "user_password")
              ELSE UNCHANGED <<keyring, prompts, writes>>
           /\ secret' = Secret("user_password", user_password)
    /\ UNCHANGED <<cfg, cfg_pc, cfg_user, cfg_token>>
    /\ UNCHANGED <<cliVars, cloneVars, uiVars>>

(***************************************************************************)
(* Specifications                                                          *)
(***************************************************************************)
\* subgroup graphs of the group-selection specification: any graph on Groups
\* in which a group lists at most two subgroups (diamonds and cycles included)
AnyGraphs == {f \in [Groups -> SUBSET Groups] : \A g \in Groups : Cardinality(f[g]) <= 2}

\* the subgroup graphs of the command specifications: A > B > C, D apart
TreeEdges == {<<"A", "B">>, <<"A", "C">>, <<"B", "C">>}
GraphOf(E) == [g \in Groups |-> {h \in Groups : <<g, h>> \in E}]
TreeGraphs == {GraphOf(E) : E \in SUBSET TreeEdges}

CloneIdle ==
    /\ fs = <<>>
    /\ fs0 = <<>>
    /\ remote = [u \in ProjectPaths |-> "populated"]
    /\ clone_calls = <<>>

UiIdle ==
    /\ base_url = "https://gitlab.com"
    /\ otp_secret = NoSeed
    /\ csrf_data = NoCsrf
    /\ ui_pc = "off"
    /\ login_ret = "_get"
    /\ r = NoPage
    /\ login_r = NoPage
    /\ login_state = "Anonymous"
    /\ cred_status = NoStatus
    /\ otp_status = NoStatus
    /\ submissions = 0
    /\ traversals = 0
    /\ fetches = 0
    /\ calls = 0
    /\ outcome = "none"
    /\ last_request = NoRequest
    /\ last_response = NoCsrf
    /\ prior_response = NoCsrf
    /\ seen_csrf = NoCsrf

NoCredentials == [k \in CredentialKeys |-> None]

CfgIdle ==
    /\ keyring = [k \in KeyringKeys \cup CredentialKeys |-> None]
    /\ cfg = [gitlab_server |-> "https://gitlab.com", user |-> None,
              allow_prompting |-> FALSE]
    /\ cfg_pc = "off"
    /\ cfg_user = None
    /\ cfg_token = None
    /\ prompts = <<>>
    /\ writes = <<>>
    /\ secret = NoSecret

CliIdle ==
    /\ subgroups = [g \in Groups |-> {}]
    /\ projects = [g \in Groups |-> <<>>]
    /\ argv = [command |-> "none"]
    /\ pc = "off"
    /\ groups_selected = <<>>
    /\ groups = <<>>
    /\ rounds = 0
    /\ repos = <<>>
    /\ stdout = <<>>
    /\ log = <<>>
    /\ deleted = <<>>

NoProjects == [g \in Groups |-> <<>>]

InitGroups ==
    /\ subgroups \in AnyGraphs
    /\ projects = NoProjects
    /\ argv = [command |-> "select", ret |-> "done"]
    /\ pc = "select"
    /\ groups_selected = <<Root>>
    /\ groups = <<Root>>
    /\ rounds = 0
    /\ repos = <<>>
    /\ stdout = <<>>
    /\ log = <<>>
    /\ deleted = <<>>
    /\ CloneIdle
    /\ UiIdle
    /\ CfgIdle

NextGroups == RecursiveGroupSelectStep

SpecGroups == InitGroups /\ [][NextGroups]_vars

ReposArgv ==
    {[command |-> "repos", ret |-> "filter", recursive |-> rec, repo_regex |-> re,
      sub |-> "none", format |-> "list", doit |-> FALSE, seriously |-> FALSE,
      quiet |-> FALSE] : rec \in BOOLEAN, re \in Regexes}
    \cup
    {[command |-> "repos", ret |-> "filter", recursive |-> rec, repo_regex |-> re,
      sub |-> "list", format |-> f, doit |-> FALSE, seriously |-> FALSE,
      quiet |-> FALSE] : rec \in BOOLEAN, re \in Regexes, f \in Formats}
    \cup
    {[command |-> "repos", ret |-> "filter", recursive |-> rec, repo_regex |-> re,
      sub |-> "delete", format |-> "list", doit |-> d, seriously |-> s,
      quiet |-> q] : rec \in BOOLEAN, re \in Regexes, d \in BOOLEAN, s \in BOOLEAN,
                     q \in BOOLEAN}

InitRepos ==
    /\ subgroups \in TreeGraphs
    /\ projects \in {f \in [Groups -> Listings] : f["D"] = <<>>}
    /\ argv \in ReposArgv
    /\ pc = "repos"
    /\ groups_selected = <<>>
    /\ groups = <<>>
    /\ rounds = 0
    /\ repos = <<>>
    /\ stdout = <<>>
    /\ log = <<>>
    /\ deleted = <<>>
    /\ CloneIdle
    /\ UiIdle
    /\ CfgIdle

NextRepos ==
    \/ ReposEnter
    \/ RecursiveGroupSelectStep
    \/ ReposSelect
    \/ ListRepos
    \/ DeleteRepos

SpecRepos == InitRepos /\ [][NextRepos]_vars

\* subgroup graphs in which a group has one parent, so that full_path is defined
ForestGraphs == {f \in TreeGraphs : \A g \in Groups : Cardinality({h \in Groups : g \in f[h]}) <= 1}

CloneArgv ==
    {[command |-> "clone-organization", ret |-> "clone-loop", recursive |-> FALSE]}
    \cup {[command |-> "clone", ret |-> "clone-loop", recursive |-> rec] : rec \in BOOLEAN}

\* where a clone command may put the project of path u of group g
DestsOf(a, sg, g, u) ==
    IF a.command = "clone-organization" THEN {<<u>>}
    ELSE LET chain == IF g = "A" THEN <<>>
                      ELSE IF g = "B" THEN <<"B">>
                      ELSE IF "C" \in sg["B"] THEN <<"B", "C">> ELSE <<"C">>
         IN {OutputDir \o chain \o <<u>>}

InitClone ==
    /\ subgroups \in ForestGraphs
    /\ projects \in {f \in [Groups -> Listings] : f["D"] = <<>>}
    /\ argv \in CloneArgv
    /\ pc = argv.command
    /\ groups_selected = <<>>
    /\ groups = <<>>
    /\ rounds = 0
    /\ repos = <<>>
    /\ stdout = <<>>
    /\ log = <<>>
    /\ deleted = <<>>
    /\ remote \in [ProjectPaths -> {"empty", "populated"}]
    /\ clone_calls = <<>>
    /\ \E present \in SUBSET UNION {DestsOf(argv, subgroups, g, u) :
                                      g \in {"A", "B", "C"}, u \in ProjectPaths} :
           LET above == UNION {{SubSeq(p, 1, k) : k \in 1..(Len(p) - 1)} : p \in present} IN
           fs = [p \in present \cup above |->
                   IF p \in present THEN [kind |-> "preexisting"] ELSE [kind |-> "dir"]]
    /\ fs0 = fs
    /\ UiIdle
    /\ CfgIdle

NextClone ==
    \/ GitlabOrgClone
    \/ CloneEnter
    \/ RecursiveGroupSelectStep
    \/ Clone

SpecClone == InitClone /\ [][NextClone]_vars

\* GitlabUIClient(server_url, username, password, otp_secret), lines 44-61
InitUI ==
    /\ CliIdle
    /\ CloneIdle
    /\ CfgIdle
    /\ base_url \in ServerUrls
    /\ otp_secret \in Seeds
    /\ csrf_data = NoCsrf
    /\ ui_pc = "idle"
    /\ login_ret = "_get"
    /\ r = NoPage
    /\ login_r = NoPage
    /\ login_state = "Anonymous"
    /\ cred_status = NoStatus
    /\ otp_status = NoStatus
    /\ submissions = 0
    /\ traversals = 0
    /\ fetches = 0
    /\ calls = 0
    /\ outcome = "none"
    /\ last_request = NoRequest
    /\ last_response = NoCsrf
    /\ prior_response = NoCsrf
    /\ seen_csrf = NoCsrf

NextUI ==
    \/ ListRepositoryMirrors
    \/ Fetch
    \/ GetCheck
    \/ MirrorsCheck
    \/ LoginPage
    \/ LoginPost
    \/ OtpPost

SpecUI == InitUI /\ [][NextUI]_vars

\* the client is one sequential thread and every request is answered: a step
\* that can be taken is taken
SpecUILive == InitUI /\ [][NextUI]_vars /\ WF_vars(NextUI)

\* Config(gitlab_server, user, ssl_verify, allow_prompting) over every content
\* of the credential storage
InitConfig ==
    /\ CliIdle
    /\ CloneIdle
    /\ UiIdle
    /\ \E api \in [KeyringKeys -> {None, "", "alice", "glpat-0"}] :
         /\ \A k \in KeyringKeys :
              /\ k[2] = DEFAULT_USER => api[k] \in {None, "", "alice"}
              /\ k[2] # DEFAULT_USER => api[k] \in {None, "", "glpat-0"}
         /\ keyring = api @@ NoCredentials
    /\ cfg \in [gitlab_server : ServerUrls, user : {None, "alice"},
                allow_prompting : BOOLEAN]
    /\ cfg_pc = "__init__"
    /\ cfg_user = None
    /\ cfg_token = None
    /\ prompts = <<>>
    /\ writes = <<>>
    /\ secret = NoSecret

NextConfig ==
    \/ ConfigInit
    \/ GetUser
    \/ GetTokenEnter
    \/ GetToken

SpecConfig == InitConfig /\ [][NextConfig]_vars

\* what the credential storage may hold under the keys of user alice
StoredUnder(k) ==
    IF k[2] # "alice" THEN {None}
    ELSE IF k[1][2] = "api" THEN {None, "", "glpat-0"}
    ELSE IF k[1][2] = "otp" THEN {None, "", "seed-0"}
    ELSE {None, "", "pw-0"}

\* Config(gitlab_server, "alice", ...) over every content of the credential
\* storage, then reads of the login credentials
InitCredentials ==
    /\ CliIdle
    /\ CloneIdle
    /\ UiIdle
    /\ LET keys == KeyringKeys \cup CredentialKeys
           mine == {k \in keys : k[2] = "alice"}
       IN  \E held \in [mine -> {None, "", "glpat-0", "seed-0", "pw-0"}] :
             /\ \A k \in mine : held[k] \in StoredUnder(k)
             /\ keyring = held @@ [k \in keys \ mine |-> None]
    /\ cfg \in [gitlab_server : ServerUrls, user : {"alice"}, allow_prompting : BOOLEAN]
    /\ cfg_pc = "__init__"
    /\ cfg_user = None
    /\ cfg_token = None
    /\ prompts = <<>>
    /\ writes = <<>>
    /\ secret = NoSecret

NextCredentials ==
    \/ ConfigInit
    \/ GetTokenEnter
    \/ GetToken
    \/ OtpSecret
    \/ UserPassword

SpecCredentials == InitCredentials /\ [][NextCredentials]_vars

(***************************************************************************)
(* Properties of the command handlers                                      *)
(***************************************************************************)
DeleteFinished == argv.command = "repos" /\ argv.sub = "delete" /\ pc = "done"

DryRunLogged ==
    LET dry == SelectSeq(log, LAMBDA e : e.event = "DRY RUN - NO ACTION") IN
    [i \in DOMAIN dry |-> dry[i].project_name]

DeletingLogged == SelectSeq(log, LAMBDA e : e.event = "Deleting project")

\* C1: delete_repos issues a project delete only when doit and seriously are
\* both set; then every selected repository is deleted exactly once, in
\* selection order; in the three other flag combinations nothing is deleted
\* and every selected repository is logged once as a dry run. quiet has no
\* part in it.
C1_DeleteNeedsBothFlags ==
    /\ deleted # <<>> => argv.doit /\ argv.seriously
    /\ DeleteFinished =>
         IF argv.doit /\ argv.seriously
         THEN deleted = repos /\ DryRunLogged = <<>>
         ELSE /\ deleted = <<>>
              /\ DeletingLogged = <<>>
              /\ DryRunLogged = [i \in DOMAIN repos |-> repos[i].name]

C1_Witness ==
    /\ DeleteFinished
    /\ argv.doit /\ argv.seriously /\ argv.quiet
    /\ Len(repos) = 2
    /\ deleted = repos

RECURSIVE ReachableFrom(_, _)
ReachableFrom(S, n) ==
    IF n = 0 THEN S
    ELSE ReachableFrom(S \cup UNION {subgroups[g] : g \in S}, n - 1)

Reachable == ReachableFrom({Root}, Cardinality(Groups))

\* C2: on every finite subgroup graph, diamonds and cycles included,
\* _recursive_group_select terminates (a search that visits each group once
\* makes fewer passes than there are groups) and returns the root and every
\* reachable subgroup exactly once.
C2_EachGroupOnce ==
    /\ rounds < Cardinality(Groups)
    /\ pc = "done" =>
         /\ IsInjective(groups_selected)
         /\ Range(groups_selected) = Reachable

ReposSelected == argv.command = "repos" /\ pc \in {"list", "delete", "done"}

MatchingOf(g) ==
    SelectSeq(ProjectList(g), LAMBDA p : RegexMatch(argv.repo_regex, p.name))

\* C3: without --recursive, the repositories selected by repos, and printed by
\* repos ... list, are exactly the projects of the group whose name matches
\* the regex, in the order of the paged listing.
C3_ReposExactlyMatching ==
    (ReposSelected /\ ~argv.recursive) =>
        /\ repos = MatchingOf(Root)
        /\ (pc = "done" /\ argv.sub = "list") =>
             IF argv.format = "list"
             THEN stdout = [i \in DOMAIN MatchingOf(Root) |-> MatchingOf(Root)[i].name]
             ELSE stdout = <<[format |-> argv.format, attributes |-> MatchingOf(Root)]>>

C3_Witness ==
    /\ ReposSelected /\ ~argv.recursive
    /\ pc = "done" /\ argv.sub = "list" /\ argv.format = "list"
    /\ Len(projects[Root]) = 2
    /\ stdout = << <<"a", "b">> >>

\* C4: with --recursive, the repositories handed to the subcommands are the
\* union over every selected group of the group's matching projects.
C4_RecursiveUnion ==
    (ReposSelected /\ argv.recursive) =>
        \A g \in Range(groups_selected) :
            Range(MatchingOf(g)) \subseteq Range(repos)

CloneEnded ==
    /\ argv.command \in {"clone-organization", "clone"}
    /\ pc \in {"done", "AttributeError"}

\* the destination path of project p of group g
DestinationOf(g, p) ==
    Resolve(IF argv.command = "clone-organization"
            THEN <<ProjectPath(p.name)>>
            ELSE OutputDir \o RelPath(FullPath(g), FullPath(Root)) \o <<ProjectPath(p.name)>>)

ClonesInto(d) ==
    Cardinality({i \in DOMAIN clone_calls : Resolve(clone_calls[i].to_path) = d})

\* C5: in both clone commands, for every project of every selected group, a
\* destination path that already exists is not cloned into and is left as it
\* was, and a destination path that does not exist is cloned into exactly
\* once, whatever the state of the remote repository.
C5_CloneSkipsExisting ==
    CloneEnded =>
        /\ \A d \in DOMAIN fs0 : d \in DOMAIN fs /\ fs[d] = fs0[d]
        /\ \A g \in Range(groups_selected) : \A p \in Range(ProjectList(g)) :
             LET d == DestinationOf(g, p) IN
             IF d \in DOMAIN fs0 THEN ClonesInto(d) = 0 ELSE ClonesInto(d) = 1

(***************************************************************************)
(* Properties of the session client                                        *)
(***************************************************************************)
\* C6: a login traversal is authenticated after exactly one submission when
\* the credential submission is answered with a redirect, and after exactly
\* two (credentials, then the one-time code) when the credential submission
\* is not and the code is; no further submission is sent in either case.
C6_LoginSubmissions ==
    /\ cred_status = "302" => login_state = "Authenticated" /\ submissions = 1
    /\ otp_status = "302" =>
         login_state = "Authenticated" /\ submissions = 2 /\ cred_status = "200"
    /\ login_state = "Authenticated" => cred_status = "302" \/ otp_status = "302"

C6_Witness ==
    /\ login_state = "Authenticated"
    /\ cred_status = "200" /\ otp_status = "302"
    /\ submissions = 2
    /\ ui_pc = "request"

\* C7: a login traversal in which no submission is answered with a redirect
\* raises ErrorGitlabLoginFailed to the caller after at most two submissions;
\* _do_login returns normally only after a redirect, and never resubmits.
C7_NoRedirectRaises ==
    /\ submissions <= 2
    /\ login_state = "Authenticated" => "302" \in {cred_status, otp_status}
    /\ (cred_status = "200" /\ otp_status = "200") => login_state = "Failed"
    /\ login_state = "Failed" =>
         /\ "302" \notin {cred_status, otp_status}
         /\ outcome = "ErrorGitlabLoginFailed"
         /\ ui_pc = "idle"

C7_Witness ==
    /\ login_state = "Failed"
    /\ cred_status = "200" /\ otp_status = "200"
    /\ submissions = 2
    /\ outcome = "ErrorGitlabLoginFailed"

\* C8: when the credential submission is not answered with a redirect and no
\* OTP seed is configured, the traversal fails with an authentication error
\* and no one-time-code submission is sent.
C8_NoSeedNoOtpSubmission ==
    (otp_secret = NoSeed /\ cred_status = "200") =>
        /\ submissions = 1
        /\ otp_status = NoStatus
        /\ login_state \in {"OtpRequired", "Failed"}
        /\ ui_pc = "idle" => outcome = "ErrorGitlabLoginFailed"

\* C9: one caller fetch causes at most one login traversal and at most two
\* requests for the target URL, whatever the retried response contains.
C9_SingleRelogin ==
    /\ traversals <= 1
    /\ fetches <= 2

\* C12: every call of list_repository_mirrors eventually returns or raises,
\* whatever the server answers, a server that redirects every login
\* submission and still renders the login page on the settings fetch
\* included.
C12_CallEnds == (outcome = "running") ~> (outcome # "running")

\* C13: every response received is scanned for the CSRF tags, so whenever
\* the client is not in the middle of handling a response the stored pair is
\* the pair carried by the most recent response that contained one.
C13_MostRecentPairStored ==
    ui_pc # "otp_post" => csrf_data = seen_csrf

\* C14: a credential submission and a one-time-code submission carry as form
\* field the CSRF pair of the response received immediately before them (the
\* sign-in page, the response to the credential submission), never the pair
\* of an older response.
C14_SubmissionCarriesLatestPair ==
    last_request.method = "POST" =>
        last_request.data = gitlab_get_csrf(prior_response)

C14_Witness ==
    /\ last_request.method = "POST"
    /\ submissions = 2
    /\ otp_status = "302"
    /\ prior_response = [param |-> "authenticity_token", token |-> "t2"]
    /\ last_request.data = [param |-> "authenticity_token", token |-> "t2"]
    /\ last_response = [param |-> "authenticity_token", token |-> "t1"]

\* C15: every request the session client sends, the sign-in page fetch and
\* the credential and one-time-code submissions included, goes to the host of
\* the server_url the client was constructed with.
C15_RequestsGoToServer ==
    last_request # NoRequest => last_request.host = Netloc(base_url)

(***************************************************************************)
(* Properties of the configuration                                         *)
(***************************************************************************)
\* C10: when prompting is not permitted, constructing the configuration never
\* prompts and writes nothing to the credential storage (a missing default
\* user or API token is an error); when it is permitted, what is prompted for
\* is stored under the host:api key of the server for the user.
C10_NoPromptUnlessPermitted ==
    /\ ~cfg.allow_prompting => prompts = <<>> /\ writes = <<>>
    /\ Len(writes) = Len(prompts)
    /\ \A i \in DOMAIN writes :
         /\ writes[i].service = ServiceName(cfg.gitlab_server)
         /\ writes[i].username = IF prompts[i] = "user" THEN DEFAULT_USER ELSE cfg_user

\* the storage key of a credential kind
CredentialKey(kind) ==
    <<IF kind = "token" THEN ServiceName(cfg.gitlab_server)
      ELSE IF kind = "otp_secret" THEN OtpServiceName(cfg.gitlab_server)
      ELSE PasswordServiceName(cfg.gitlab_server),
      cfg_user>>

\* C11: for the API token, the login password and the OTP seed, and every
\* content of the credential storage, a read of the credential returns
\* normally and the secret it returns holds the value the storage holds under
\* the credential's (server, user) key after the read; so on first use it is
\* the value just prompted for and written.
C11_ReadEqualsStored ==
    secret.kind # None =>
        /\ secret.raised = None
        /\ secret.value = keyring[CredentialKey(secret.kind)]

(***************************************************************************)
(* The program as a whole: one command, or one component, at work.         *)
(***************************************************************************)
Init == InitGroups \/ InitRepos \/ InitClone \/ InitUI \/ InitConfig \/ InitCredentials

Next == NextGroups \/ NextRepos \/ NextClone \/ NextUI \/ NextConfig \/ NextCredentials

Spec == Init /\ [][Next]_vars

====
